---- MODULE Spec2Model ----
(***************************************************************************)
(* Model of plex_converter.py: PlexConverter.get_duration, convert_file,   *)
(* batch_convert and main, together with the environment they drive: the   *)
(* filesystem, the user's terminal (prompt answers, interrupts), the       *)
(* duration prober and the encoder child processes.                        *)
(*                                                                         *)
(* Text is a sequence of one-character strings, so that the str methods    *)
(* the code applies (in, split, strip, lower, int, float) are computed the *)
(* way Python computes them.  A float is the exact decimal it denotes, a    *)
(* record [num, den] with den a positive power of ten.                     *)
(***************************************************************************)
EXTENDS Integers, Sequences, FiniteSets, TLC

VARIABLES
  fs,           \* the filesystem: a function from the existing paths to their content
  tools,        \* the external programs found on PATH, among "ffmpeg" and "ffprobe"
  args,         \* the parsed command line: [batch, input, output, quality, preset,
                \* audio, subtitles]
  mainpc,       \* position in main
  exc,          \* the exception that left main unhandled, "none" otherwise
  bpc,          \* position in batch_convert
  video_files,  \* batch_convert's list of candidates
  i,            \* batch_convert's loop index (1-based, as enumerate(.., 1))
  successful,   \* batch_convert's counter
  failed,       \* batch_convert's counter
  pc,           \* position in convert_file
  input_path,   \* convert_file's local
  output_file,  \* convert_file's local (None until resolved when not supplied)
  overwrite,    \* convert_file's local: the answer read at the overwrite prompt
  duration,     \* convert_file's local: Unbound, None or a float
  process,      \* convert_file's local: 0 while unbound, else the child's index
  line,         \* convert_file's loop variable: the line last read
  result,       \* the value convert_file returned
  retLine,      \* the source line of the return statement taken
  fault,        \* the exception caught by "except Exception", "none" otherwise
  children,     \* the encoder children spawned so far, in spawn order
  pipe,         \* the diagnostic pipe of the child being monitored: the lines in
                \* it, each [n, text], the n-th line its child wrote
  samples,      \* the percent values printed during the current job
  probeCalls,   \* number of get_duration calls in the current job
  consumed,     \* the numbers of the lines the current job has read, in the order read
  interruptCtx, \* what held when the interrupt of the current job was delivered
  cancelledOut, \* outputs of the jobs that have returned Cancelled, the interrupt having
                \* come in the loop or in wait with the child running and its output created
  calls,        \* the files convert_file was invoked with, in order
  outcomes,     \* the values those invocations returned, in order
  interrupts    \* number of interrupts delivered so far

vars == << fs, tools, args, mainpc, exc, bpc, video_files, i, successful, failed, pc,
           input_path, output_file, overwrite, duration, process, line, result,
           retLine, fault, children, pipe, samples, probeCalls, consumed,
           interruptCtx, cancelledOut, calls, outcomes, interrupts >>

\* A path is << parent, stem, suffix >>, parent being "" for a file of the current
\* directory and ending in "/" otherwise.
\* Values of one type compare in TLC, so the absent values are of the type of
\* the present ones: a float has den > 0, a path a nonempty name.
None == [num |-> 0, den |-> 0]        \* Python's None, where a float may stand
Unbound == [num |-> 0, den |-> -1]    \* a local not yet assigned
NoPath == <<"", "", "">>              \* None, where a path may stand
NoAnswer == <<"<unset>">>             \* overwrite, before the prompt is answered
NoLine == <<>>                        \* line, before the loop has read one

mainVars == << tools, args, mainpc, exc >>
batchVars == << bpc, video_files, i, successful, failed >>
localVars == << input_path, output_file, overwrite, duration, process, line >>
retVars == << result, retLine, fault >>
envVars == << fs, children, pipe >>
histVars == << samples, probeCalls, consumed, interruptCtx, cancelledOut, calls,
              outcomes >>

(***************************************************************************)
(* Bounds of the model.                                                    *)
(***************************************************************************)
\* diagnostic lines an encoder child writes at most
MaxLines == 2
\* capacity of the diagnostic pipe, in lines
PipeCap == 1
\* interrupts (Ctrl-C) delivered in one run of the program at most
MaxInterrupts == 1

(***************************************************************************)
(* Python's str operations on sequences of characters.                     *)
(***************************************************************************)
Digits == {"0", "1", "2", "3", "4", "5", "6", "7", "8", "9"}
Whitespace == {" ", "\n", "\t", "\r"}

DigitVal(c) ==
  CASE c = "0" -> 0 [] c = "1" -> 1 [] c = "2" -> 2 [] c = "3" -> 3
    [] c = "4" -> 4 [] c = "5" -> 5 [] c = "6" -> 6 [] c = "7" -> 7
    [] c = "8" -> 8 [] c = "9" -> 9

\* s.lower(), on the letters the prompt answers use
LowerChar(c) ==
  CASE c = "Y" -> "y" [] c = "N" -> "n" [] c = "E" -> "e" [] c = "S" -> "s"
    [] OTHER -> c

Lower(s) == [k \in 1..Len(s) |-> LowerChar(s[k])]

\* the least index at which sub occurs in s, 0 if none (str.find, 1-based)
Find(s, sub) ==
  LET hits == {k \in 1..(Len(s) - Len(sub) + 1) : SubSeq(s, k, k + Len(sub) - 1) = sub}
  IN IF hits = {} THEN 0 ELSE CHOOSE k \in hits : \A h \in hits : k <= h

\* sub in s
Contains(s, sub) == Find(s, sub) # 0

\* s.split(sep)
RECURSIVE Split(_, _)
Split(s, sep) ==
  LET k == Find(s, sep)
  IN IF k = 0 THEN <<s>>
     ELSE <<SubSeq(s, 1, k - 1)>> \o Split(SubSeq(s, k + Len(sep), Len(s)), sep)

\* s.lstrip(), s.rstrip(), s.strip()
RECURSIVE LStrip(_)
LStrip(s) == IF s # <<>> /\ Head(s) \in Whitespace THEN LStrip(Tail(s)) ELSE s

RECURSIVE RStrip(_)
RStrip(s) ==
  IF s # <<>> /\ s[Len(s)] \in Whitespace THEN RStrip(SubSeq(s, 1, Len(s) - 1)) ELSE s

Strip(s) == RStrip(LStrip(s))

\* the leading run of non-whitespace characters of s
RECURSIVE Word(_)
Word(s) ==
  IF s = <<>> \/ Head(s) \in Whitespace THEN <<>> ELSE <<Head(s)>> \o Word(Tail(s))

\* s.split(): the maximal runs of non-whitespace characters
RECURSIVE SplitWs(_)
SplitWs(s) ==
  LET t == LStrip(s)
  IN IF t = <<>> THEN <<>>
     ELSE <<Word(t)>> \o SplitWs(SubSeq(t, Len(Word(t)) + 1, Len(t)))

\* the value of a nonempty run of decimal digits
RECURSIVE DigitsVal(_)
DigitsVal(s) ==
  IF s = <<>> THEN 0 ELSE DigitsVal(SubSeq(s, 1, Len(s) - 1)) * 10 + DigitVal(s[Len(s)])

AllDigits(s) == \A k \in 1..Len(s) : s[k] \in Digits

RECURSIVE Pow10(_)
Pow10(n) == IF n = 0 THEN 1 ELSE 10 * Pow10(n - 1)

Sign(s) == IF s # <<>> /\ Head(s) = "-" THEN -1 ELSE 1
Unsigned(s) == IF s # <<>> /\ Head(s) \in {"+", "-"} THEN Tail(s) ELSE s

\* int(s): an optional sign and one or more digits, ValueError otherwise
IntOk(s) == LET u == Unsigned(s) IN u # <<>> /\ AllDigits(u)
IntVal(s) == Sign(s) * DigitsVal(Unsigned(s))

\* float(s): an optional sign, digits with at most one point and at least one
\* digit; ValueError otherwise
FloatOk(s) ==
  LET parts == Split(Unsigned(s), <<".">>)
  IN /\ Len(parts) \in {1, 2}
     /\ \A k \in 1..Len(parts) : AllDigits(parts[k])
     /\ \E k \in 1..Len(parts) : parts[k] # <<>>
FloatVal(s) ==
  LET parts == Split(Unsigned(s), <<".">>)
      frac == IF Len(parts) = 2 THEN parts[2] ELSE <<>>
  IN [num |-> Sign(s) * (DigitsVal(parts[1]) * Pow10(Len(frac)) + DigitsVal(frac)),
      den |-> Pow10(Len(frac))]

(***************************************************************************)
(* Exact decimal arithmetic on [num, den] records, den > 0.                *)
(***************************************************************************)
Abs(n) == IF n < 0 THEN -n ELSE n
Sgn(n) == IF n < 0 THEN -1 ELSE 1

\* a <= n, for a rational a and an integer n
RatLeqInt(a, n) == a.num <= n * a.den
\* n <= a
IntLeqRat(n, a) == n * a.den <= a.num

(***************************************************************************)
(* get_duration: what the prober's run gives.  A run of the prober is      *)
(* [launched, rc, stdout]; subprocess.run raises FileNotFoundError when the *)
(* tool cannot be launched and, with check=True, CalledProcessError on a   *)
(* non-zero exit.                                                          *)
(***************************************************************************)
Out100 == <<"1", "0", "0", ".", "0", "\n">>
OutNA == <<"N", "/", "A", "\n">>
OutZero == <<"0", ".", "0", "\n">>

ProbeRuns ==
  { [launched |-> FALSE, rc |-> 127, stdout |-> <<>>],
    [launched |-> TRUE, rc |-> 1, stdout |-> <<>>],
    [launched |-> TRUE, rc |-> 0, stdout |-> <<>>],
    [launched |-> TRUE, rc |-> 0, stdout |-> OutNA],
    [launched |-> TRUE, rc |-> 0, stdout |-> OutZero],
    [launched |-> TRUE, rc |-> 0, stdout |-> Out100] }

\* the exception that leaves get_duration, "none" when it returns
get_duration_raises(run) ==
  IF ~run.launched THEN "FileNotFoundError" ELSE "none"

\* the value get_duration returns when it returns
get_duration(run) ==
  IF run.rc # 0 THEN None                             \* CalledProcessError
  ELSE IF ~FloatOk(Strip(run.stdout)) THEN None       \* ValueError
  ELSE FloatVal(Strip(run.stdout))

(***************************************************************************)
(* The body of the monitoring loop, lines 97-109.                          *)
(***************************************************************************)
TimeMarker == <<"t", "i", "m", "e", "=">>

\* a variant of Truthy: "if duration is not None"
TruthyNotNone(d) == d # None

\* "if duration": None and 0.0 are false
Truthy(d) == d # None /\ d.num # 0

\* line.split('time=')[1].split()
TimeTokens(l) == SplitWs(Split(l, TimeMarker)[2])

\* current_time = int(hours) * 3600 + int(minutes) * 60 + float(seconds)
CurrentTime(parts) ==
  LET s == FloatVal(parts[3])
  IN [num |-> (IntVal(parts[1]) * 3600 + IntVal(parts[2]) * 60) * s.den + s.num,
      den |-> s.den]

\* progress = (current_time / duration) * 100, for duration # 0
Progress(cur, d) ==
  [num |-> Sgn(d.num) * cur.num * d.den * 100, den |-> cur.den * Abs(d.num)]

\* What one pass of the loop body does with line l:
\*   [raises |-> exception leaving the body or "none", printed |-> the percents printed]
LoopBody(d, l) ==
  IF ~(Truthy(d) /\ Contains(l, TimeMarker))
  THEN [raises |-> "none", printed |-> {}]
  ELSE IF TimeTokens(l) = <<>>                        \* [0] of an empty list, line 99
  THEN [raises |-> "IndexError", printed |-> {}]
  ELSE LET parts == Split(TimeTokens(l)[1], <<":">>)
       IN IF Len(parts) # 3
          THEN [raises |-> "none", printed |-> {}]
          ELSE IF ~(IntOk(parts[1]) /\ IntOk(parts[2]) /\ FloatOk(parts[3]))
          THEN [raises |-> "none", printed |-> {}]    \* ValueError, caught at line 108
          ELSE IF d.num = 0
          THEN [raises |-> "ZeroDivisionError", printed |-> {}]
          ELSE [raises |-> "none", printed |-> {Progress(CurrentTime(parts), d)}]

(***************************************************************************)
(* The diagnostic lines an encoder child may write.                        *)
(***************************************************************************)
LineProgress50 == <<"t", "i", "m", "e", "=", "0", "0", ":", "0", "0", ":", "5", "0", ".", "0", "0", " ", "b", "\n">>
LineProgress150 == <<"t", "i", "m", "e", "=", "0", "0", ":", "0", "2", ":", "3", "0", ".", "0", "0", "\n">>
LineBareMarker == <<"t", "i", "m", "e", "=", "\n">>
LineNotAvailable == <<"t", "i", "m", "e", "=", "N", "/", "A", "\n">>
LineNonNumeric == <<"t", "i", "m", "e", "=", "0", "0", ":", "x", "x", ":", "0", "1", "\n">>
LineNoMarker == <<"f", "r", "a", "m", "e", "=", "1", "\n">>

LineBadBytes == <<"<0xff>", "\n">>   \* bytes the text decoder of the stream rejects

Lines == { LineProgress50, LineProgress150, LineBareMarker, LineNotAvailable,
           LineNonNumeric, LineNoMarker, LineBadBytes }

(***************************************************************************)
(* Paths and the filesystem.  A path is <<stem, suffix>>, in one directory. *)
(***************************************************************************)
Exists(p) == p \in DOMAIN fs

\* input_path.with_name(input_path.stem + '_plex.mp4')
PlexName(p) == << p[1], p[2] \o "_plex", ".mp4" >>

\* str(path)
PathStr(p) == p[1] \o p[2] \o p[3]

\* lines 50-53
ResolveOutput(inp, out) == IF out = NoPath THEN PlexName(inp) ELSE out

\* a variant of Unlinked: whatever lies in the directory of p goes with it
UnlinkedWithSiblings(f, p) == [q \in { r \in DOMAIN f : r[1] # p[1] } |-> f[q]]

\* f with path p holding content c
Written(f, p, c) == [q \in DOMAIN f \cup {p} |-> IF q = p THEN c ELSE f[q]]
\* f without path p
Unlinked(f, p) == [q \in DOMAIN f \ {p} |-> f[q]]

video_extensions == << ".mp4", ".mkv", ".avi", ".mov", ".wmv", ".flv", ".m4v" >>

\* the sequences that list each member of set S once
Orderings(S) ==
  { q \in [1..Cardinality(S) -> S] : \A a, b \in 1..Cardinality(S) : a # b => q[a] # q[b] }

\* directory.glob('*' + ext): the files of the current directory with that
\* suffix, in the order the directory scan gives them
Glob(f, ext) == Orderings({ p \in DOMAIN f : p[1] = "" /\ p[3] = ext })

\* lines 134-137: the concatenation of the globs, in the order of video_extensions
RECURSIVE Enumerations(_, _)
Enumerations(f, k) ==
  IF k = 0 THEN { <<>> }
  ELSE { a \o b : a \in Enumerations(f, k - 1), b \in Glob(f, video_extensions[k]) }

FileA == << "", "a", ".mkv" >>
FileB == << "", "b", ".mkv" >>
FileNotes == << "", "notes", ".txt" >>
FileOut == << "", "out", ".mp4" >>
FileSub == << "d/", "c", ".mkv" >>

InitialFilesystems ==
  { [p \in {FileNotes, FileSub} |-> IF p = FileNotes THEN "text" ELSE "video"],
    [p \in {FileA, FileNotes} |-> IF p = FileNotes THEN "text" ELSE "video"],
    [p \in {FileA, FileB} |-> "video"],
    [p \in {FileA, PlexName(FileA)} |-> IF p = FileA THEN "video" ELSE "old"] }

\* the options of lines 183-186: without any, -q 18 -p veryslow, -q 20 -a 128 -s
Options ==
  { [quality |-> 22, preset |-> "slow", audio |-> 192, subtitles |-> FALSE],
    [quality |-> 18, preset |-> "veryslow", audio |-> 192, subtitles |-> FALSE],
    [quality |-> 20, preset |-> "slow", audio |-> 128, subtitles |-> TRUE] }

\* the positional arguments and -b: -b, <input>, <input> <output>, nothing
Positionals ==
  { [batch |-> TRUE, input |-> NoPath, output |-> NoPath],
    [batch |-> FALSE, input |-> FileA, output |-> NoPath],
    [batch |-> FALSE, input |-> FileSub, output |-> NoPath],
    [batch |-> FALSE, input |-> FileA, output |-> FileOut],
    [batch |-> FALSE, input |-> NoPath, output |-> NoPath] }

\* parser.parse_args(), line 188
ParsedArgs(pos, opt) ==
  [ batch |-> pos.batch, input |-> pos.input, output |-> pos.output,
    quality |-> opt.quality, preset |-> opt.preset, audio |-> opt.audio,
    subtitles |-> opt.subtitles ]

\* the command lines main is run with: every option set with a single file or
\* nothing, and the epilog's "-b -q 18 -p veryslow" for a batch
CommandLines ==
  { a \in { ParsedArgs(pos, opt) : pos \in Positionals, opt \in Options } :
      a.batch => a.quality = 18 }

\* str(n) and f'{n}' of an int
DigitChar(d) == CHOOSE c \in Digits : DigitVal(c) = d
RECURSIVE Str(_)
Str(n) ==
  IF n < 0 THEN "-" \o Str(-n)
  ELSE IF n < 10 THEN DigitChar(n)
  ELSE Str(n \div 10) \o DigitChar(n % 10)

\* lines 190-195: the converter main builds from the parsed arguments
Converter(a) ==
  [ quality |-> a.quality, preset |-> a.preset, audio_bitrate |-> Str(a.audio) \o "k",
    copy_subtitles |-> a.subtitles ]

\* a variant of Cmd: the subtitle codec is asked for whatever copy_subtitles says
CmdWithSubtitles(self, inp, out) ==
  << "ffmpeg", "-i", PathStr(inp), "-c:v", "libx264", "-preset", self.preset,
     "-crf", Str(self.quality), "-c:a", "aac", "-b:a", self.audio_bitrate,
     "-movflags", "+faststart", "-map_metadata", "0", "-c:s", "mov_text",
     PathStr(out) >>

\* lines 67-82: the argument vector of the encoder
Cmd(self, inp, out) ==
  << "ffmpeg", "-i", PathStr(inp), "-c:v", "libx264", "-preset", self.preset,
     "-crf", Str(self.quality), "-c:a", "aac", "-b:a", self.audio_bitrate,
     "-movflags", "+faststart", "-map_metadata", "0" >>
  \o (IF self.copy_subtitles THEN << "-c:s", "mov_text" >> ELSE << >>)
  \o << PathStr(out) >>

\* what the user may type at a [y/N] prompt
Answers == { <<"y">>, <<"Y">>, <<"n">>, <<>>, <<"y", "e", "s">> }

\* what returncode may be once an encoder child is gone: 0, an error status,
\* or minus the number of the signal that killed it
ExitCodes == {0, 1, -15}

NoCtx == [at |-> "none", running |-> FALSE, created |-> FALSE]

Init ==
  /\ fs \in InitialFilesystems
  /\ tools \in SUBSET {"ffmpeg", "ffprobe"}
  /\ args \in CommandLines
  /\ mainpc = "check_ffmpeg"
  /\ exc = "none"
  /\ bpc = "idle"
  /\ video_files = <<>>
  /\ i = 0
  /\ successful = 0
  /\ failed = 0
  /\ pc = "idle"
  /\ input_path = NoPath
  /\ output_file = NoPath
  /\ overwrite = NoAnswer
  /\ duration = Unbound
  /\ process = 0
  /\ line = NoLine
  /\ result = FALSE
  /\ retLine = 0
  /\ fault = "none"
  /\ children = <<>>
  /\ pipe = <<>>
  /\ samples = {}
  /\ probeCalls = 0
  /\ consumed = << >>
  /\ interruptCtx = NoCtx
  /\ cancelledOut = {}
  /\ calls = <<>>
  /\ outcomes = <<>>
  /\ interrupts = 0

(***************************************************************************)
(* Control transfers shared by the actions.                                *)
(***************************************************************************)
\* a return statement of convert_file at source line ln
Return(v, ln) == pc' = "ret" /\ result' = v /\ retLine' = ln

\* "except Exception as e" (lines 127-129) catches e
Caught(e) == fault' = e /\ Return(FALSE, 129)

\* the frame of convert_file before a call and after a return: nothing bound
NoFrame ==
  /\ input_path' = NoPath
  /\ output_file' = NoPath
  /\ overwrite' = NoAnswer
  /\ duration' = Unbound
  /\ process' = 0
  /\ line' = NoLine
  /\ result' = FALSE
  /\ retLine' = 0
  /\ fault' = "none"
  /\ samples' = {}
  /\ probeCalls' = 0
  /\ consumed' = << >>
  /\ interruptCtx' = NoCtx

\* a call convert_file(file, out)
Call(file, out) ==
  /\ pc' = "check_input"
  /\ input_path' = file
  /\ output_file' = out
  /\ calls' = Append(calls, file)
  /\ UNCHANGED << overwrite, duration, process, line, retVars, samples, probeCalls, consumed,
                  interruptCtx, cancelledOut, outcomes >>

\* The Popen object dies with the frame that held it, and its end of the pipe
\* with it: what the child wrote there, whether it keeps its own end open and
\* the status it exits with can no longer be observed by the program.
Dropped(cs, c) ==
  IF c = 0 THEN cs ELSE [cs EXCEPT ![c].errOpen = FALSE, ![c].written = 0, ![c].rc = 0]

\* An exception no handler catches leaves convert_file, its caller and main:
\* the program ends with a traceback.  pc keeps the place it was raised at.
Uncaught(e) ==
  /\ mainpc' = "crashed"
  /\ exc' = e
  /\ children' = Dropped(children, process)
  /\ pipe' = <<>>
  /\ NoFrame
  /\ UNCHANGED << tools, args, batchVars, pc, fs, cancelledOut, calls, outcomes >>

\* the caller takes the returned value; the frame of convert_file is gone
Returned ==
  /\ pc = "ret"
  /\ pc' = "idle"
  /\ outcomes' = Append(outcomes, result)
  /\ children' = Dropped(children, process)
  /\ pipe' = <<>>
  /\ cancelledOut' =
       IF /\ retLine = 126
          /\ interruptCtx.at \in {"loop", "wait"}
          /\ interruptCtx.running /\ interruptCtx.created
       THEN cancelledOut \cup {output_file}
       ELSE cancelledOut
  /\ NoFrame
  /\ UNCHANGED << fs, calls >>

\* a variant of Accepts: any answer that begins with y or Y is a yes
AcceptsLeadingY(answer) == answer # <<>> /\ Lower(answer)[1] = "y"

\* overwrite.lower() != 'y' (line 58), confirm.lower() != 'y' (line 148)
Accepts(answer) == Lower(answer) = <<"y">>

(***************************************************************************)
(* main, lines 190-211.                                                    *)
(***************************************************************************)
\* lines 19-25: "ffmpeg -version" can be run; the prober is not looked for
check_ffmpeg(found) == "ffmpeg" \in found

\* lines 198-201
CheckFfmpeg ==
  /\ mainpc = "check_ffmpeg"
  /\ mainpc' = IF check_ffmpeg(tools) THEN "dispatch" ELSE "exit1"
  /\ UNCHANGED << tools, args, exc, batchVars, pc, localVars, retVars, envVars, histVars, interrupts >>

\* lines 204-205
MainBatch ==
  /\ mainpc = "dispatch" /\ args.batch
  /\ mainpc' = "batch"
  /\ bpc' = "enumerate"
  /\ UNCHANGED << tools, args, exc, video_files, i, successful, failed, pc, localVars, retVars,
                  envVars, histVars, interrupts >>

\* lines 206-208
MainSingle ==
  /\ mainpc = "dispatch" /\ ~args.batch /\ args.input # NoPath
  /\ mainpc' = "single"
  /\ Call(args.input, args.output)
  /\ UNCHANGED << tools, args, exc, batchVars, envVars, interrupts >>

\* lines 209-211
MainHelp ==
  /\ mainpc = "dispatch" /\ ~args.batch /\ args.input = NoPath
  /\ mainpc' = "exit1"
  /\ UNCHANGED << tools, args, exc, batchVars, pc, localVars, retVars, envVars, histVars, interrupts >>

\* line 208: the value of convert_file is dropped and main ends
MainSingleDone ==
  /\ mainpc = "single"
  /\ Returned
  /\ mainpc' = "exit0"
  /\ UNCHANGED << tools, args, exc, batchVars, interrupts >>

(***************************************************************************)
(* batch_convert, lines 131-164.                                           *)
(***************************************************************************)
\* lines 133-141
BatchEnumerate ==
  /\ mainpc = "batch" /\ bpc = "enumerate"
  /\ \E found \in Enumerations(fs, Len(video_extensions)) :
       /\ video_files' = found
       /\ IF found = <<>>
          THEN bpc' = "done" /\ mainpc' = "exit0"
          ELSE bpc' = "confirm" /\ mainpc' = mainpc
  /\ UNCHANGED << tools, args, exc, i, successful, failed, pc, localVars, retVars, envVars,
                  histVars, interrupts >>

\* lines 143-153
BatchConfirm ==
  /\ mainpc = "batch" /\ bpc = "confirm"
  /\ \E confirm \in Answers :
       IF Accepts(confirm)
       THEN bpc' = "loop" /\ i' = 1 /\ mainpc' = mainpc
       ELSE bpc' = "done" /\ i' = i /\ mainpc' = "exit0"
  /\ successful' = 0
  /\ failed' = 0
  /\ UNCHANGED << tools, args, exc, video_files, pc, localVars, retVars, envVars, histVars,
                  interrupts >>

\* line 147: input() raises EOFError when standard input is at its end
BatchConfirmEOF ==
  /\ mainpc = "batch" /\ bpc = "confirm"
  /\ Uncaught("EOFError")
  /\ UNCHANGED interrupts

\* lines 155-157: the next file of the list is handed to convert_file
BatchCall ==
  /\ mainpc = "batch" /\ bpc = "loop" /\ i <= Len(video_files)
  /\ bpc' = "job"
  /\ Call(video_files[i], NoPath)
  /\ UNCHANGED << mainVars, video_files, i, successful, failed, envVars, interrupts >>

\* a variant of BatchCount: the loop is left at the first job that does not succeed
BatchCountStopsOnFailure ==
  /\ mainpc = "batch" /\ bpc = "job"
  /\ Returned
  /\ IF result
     THEN successful' = successful + 1 /\ failed' = failed /\ i' = i + 1
     ELSE failed' = failed + 1 /\ successful' = successful /\ i' = Len(video_files) + 1
  /\ bpc' = "loop"
  /\ UNCHANGED << mainVars, video_files, interrupts >>

\* a variant of BatchCount: the directory is listed again after every job
BatchCountRescans ==
  /\ mainpc = "batch" /\ bpc = "job"
  /\ Returned
  /\ IF result
     THEN successful' = successful + 1 /\ failed' = failed
     ELSE failed' = failed + 1 /\ successful' = successful
  /\ i' = i + 1
  /\ bpc' = "loop"
  /\ video_files' \in Enumerations(fs, Len(video_extensions))
  /\ UNCHANGED << mainVars, interrupts >>

\* lines 157-160: the counters, and on to the next file
BatchCount ==
  /\ mainpc = "batch" /\ bpc = "job"
  /\ Returned
  /\ IF result
     THEN successful' = successful + 1 /\ failed' = failed
     ELSE failed' = failed + 1 /\ successful' = successful
  /\ i' = i + 1
  /\ bpc' = "loop"
  /\ UNCHANGED << mainVars, video_files, interrupts >>

\* lines 162-164
BatchReport ==
  /\ mainpc = "batch" /\ bpc = "loop" /\ i > Len(video_files)
  /\ bpc' = "done"
  /\ mainpc' = "exit0"
  /\ UNCHANGED << tools, args, exc, video_files, i, successful, failed, pc, localVars, retVars,
                  envVars, histVars, interrupts >>

(***************************************************************************)
(* convert_file, lines 42-129.  pc names the statement about to run.  The  *)
(* try block spans "probe" to "check_rc"; what precedes it and the except   *)
(* clauses themselves are outside.                                         *)
(***************************************************************************)
\* main is inside a call of convert_file, directly or through batch_convert
InCall == mainpc \in {"batch", "single"}

InTry == { "probe", "spawn", "loop", "wait", "check_rc" }
OutsideTry == { "check_input", "check_output", "prompt", "test_overwrite",
                "except_kbd", "cleanup" }

\* a variant of InputMissing: the existence check is left out
InputMissingIgnored(p) == FALSE

\* not input_path.exists(), line 46
InputMissing(p) == ~Exists(p)

\* process.returncode: None (the empty tuple) until wait or poll has reaped the child
Returncode(c) == IF c.st = "exited" THEN << c.rc >> ELSE <<>>

\* a variant of Success: "process.returncode is not None"
SuccessWhenReaped(code) == code # <<>>

\* process.returncode == 0, line 113
Success(code) == code = << 0 >>

\* Popen of the encoder: a new running child writing to the resolved output
NewChild(job, cmd, out) ==
  [ job |-> job, cmd |-> cmd, out |-> out, st |-> "running", rc |-> 0, term |-> FALSE,
    errOpen |-> TRUE, created |-> FALSE, written |-> 0 ]

\* process.terminate(): SIGTERM to a child not yet reaped, nothing otherwise
Terminated(cs, c) ==
  IF cs[c].st = "running" THEN [cs EXCEPT ![c].term = TRUE] ELSE cs

\* lines 44-53
CheckInput ==
  /\ InCall
  /\ pc = "check_input"
  /\ IF InputMissing(input_path)
     THEN Return(FALSE, 48) /\ output_file' = output_file
     ELSE /\ output_file' = ResolveOutput(input_path, output_file)
          /\ pc' = "check_output"
          /\ UNCHANGED << result, retLine >>
  /\ UNCHANGED << mainVars, batchVars, input_path, overwrite, duration, process, line,
                  fault, envVars, histVars, interrupts >>

\* lines 56 and 62-82: with no output in the way the command is built
CheckOutput ==
  /\ InCall
  /\ pc = "check_output"
  /\ pc' = IF Exists(output_file) THEN "prompt" ELSE "probe"
  /\ UNCHANGED << mainVars, batchVars, localVars, retVars, envVars, histVars, interrupts >>

\* line 57
Prompt ==
  /\ InCall
  /\ pc = "prompt"
  /\ overwrite' \in Answers
  /\ pc' = "test_overwrite"
  /\ UNCHANGED << mainVars, batchVars, input_path, output_file, duration, process, line,
                  retVars, envVars, histVars, interrupts >>

\* line 57: input() raises EOFError when standard input is at its end
PromptEOF ==
  /\ InCall
  /\ pc = "prompt"
  /\ Uncaught("EOFError")
  /\ UNCHANGED interrupts

\* lines 58-60, then 62-82
TestOverwrite ==
  /\ InCall
  /\ pc = "test_overwrite"
  /\ IF Accepts(overwrite)
     THEN pc' = "probe" /\ UNCHANGED << result, retLine >>
     ELSE Return(FALSE, 60)
  /\ UNCHANGED << mainVars, batchVars, localVars, fault, envVars, histVars, interrupts >>

\* line 86
Probe ==
  /\ InCall
  /\ pc = "probe"
  /\ probeCalls' = probeCalls + 1
  /\ \E run \in { r \in ProbeRuns : r.launched = ("ffprobe" \in tools) } :
       IF get_duration_raises(run) # "none"
       THEN Caught(get_duration_raises(run)) /\ duration' = duration
       ELSE /\ duration' = get_duration(run)
            /\ pc' = "spawn"
            /\ UNCHANGED retVars
  /\ UNCHANGED << mainVars, batchVars, input_path, output_file, overwrite, process, line,
                  envVars, samples, consumed, interruptCtx, cancelledOut, calls, outcomes,
                  interrupts >>

\* lines 89-93
Spawn ==
  /\ InCall
  /\ pc = "spawn"
  /\ children' = Append(children,
                         NewChild(Len(calls), Cmd(Converter(args), input_path, output_file),
                                  output_file))
  /\ process' = Len(children) + 1
  /\ pipe' = <<>>
  /\ pc' = "loop"
  /\ UNCHANGED << mainVars, batchVars, input_path, output_file, overwrite, duration, line,
                  retVars, fs, histVars, interrupts >>

\* lines 89-93: Popen raises when the encoder cannot be executed
SpawnFails ==
  /\ InCall
  /\ pc = "spawn"
  /\ Caught("FileNotFoundError")
  /\ UNCHANGED << mainVars, batchVars, localVars, envVars, histVars, interrupts >>

\* lines 96-109: the next line of the stream and the body of the loop on it
LoopLine ==
  /\ InCall
  /\ pc = "loop"
  /\ pipe # <<>>
  /\ pipe' = Tail(pipe)
  /\ consumed' = Append(consumed, Head(pipe).n)
  /\ IF Head(pipe).text = LineBadBytes
     THEN Caught("UnicodeDecodeError") /\ UNCHANGED << line, samples >>
     ELSE /\ line' = Head(pipe).text
          /\ LET body == LoopBody(duration, Head(pipe).text)
             IN IF body.raises # "none"
                THEN Caught(body.raises) /\ samples' = samples
                ELSE /\ samples' = samples \cup body.printed
                     /\ UNCHANGED << pc, retVars >>
  /\ UNCHANGED << mainVars, batchVars, input_path, output_file, overwrite, duration,
                  process, fs, children, probeCalls, interruptCtx, cancelledOut, calls,
                  outcomes, interrupts >>

\* a variant of LoopEnd: the loop is left as soon as no line is pending
LoopEndWhenEmpty ==
  /\ InCall
  /\ pc = "loop"
  /\ pipe = <<>>
  /\ pc' = "wait"
  /\ UNCHANGED << mainVars, batchVars, localVars, retVars, envVars, histVars, interrupts >>

\* line 96: end of the stream, every writer has closed it
LoopEnd ==
  /\ InCall
  /\ pc = "loop"
  /\ pipe = <<>>
  /\ ~children[process].errOpen
  /\ pc' = "wait"
  /\ UNCHANGED << mainVars, batchVars, localVars, retVars, envVars, histVars, interrupts >>

\* line 111: wait returns once the child has exited
Wait ==
  /\ InCall
  /\ pc = "wait"
  /\ children[process].st = "exited"
  /\ pc' = "check_rc"
  /\ UNCHANGED << mainVars, batchVars, localVars, retVars, envVars, histVars, interrupts >>

\* lines 113-118
CheckRc ==
  /\ InCall
  /\ pc = "check_rc"
  /\ IF Success(Returncode(children[process]))
     THEN Return(TRUE, 115)
     ELSE Return(FALSE, 118)
  /\ UNCHANGED << mainVars, batchVars, localVars, fault, envVars, histVars, interrupts >>

\* lines 120-122: process.terminate(), a NameError when process was never bound.
\* The stream is not read again on this path.
ExceptKbd ==
  /\ InCall
  /\ pc = "except_kbd"
  /\ IF process = 0
     THEN Uncaught("UnboundLocalError")
     ELSE /\ children' = Dropped(Terminated(children, process), process)
          /\ pipe' = <<>>
          /\ pc' = "cleanup"
          /\ UNCHANGED << mainVars, batchVars, localVars, retVars, fs, histVars >>
  /\ UNCHANGED interrupts

\* lines 124-126
Cleanup ==
  /\ InCall
  /\ pc = "cleanup"
  /\ fs' = IF Exists(output_file) THEN Unlinked(fs, output_file) ELSE fs
  /\ Return(FALSE, 126)
  /\ UNCHANGED << mainVars, batchVars, localVars, fault, children, pipe, histVars,
                  interrupts >>

\* line 125: unlink raises (the file is in use, or the directory refuses)
CleanupFails ==
  /\ InCall
  /\ pc = "cleanup"
  /\ Exists(output_file)
  /\ Uncaught("PermissionError")
  /\ UNCHANGED interrupts

(***************************************************************************)
(* The terminal: an interrupt (SIGINT) raises KeyboardInterrupt in the     *)
(* statement being run.                                                    *)
(***************************************************************************)
InterruptInTry ==
  /\ mainpc \in {"batch", "single"}
  /\ pc \in InTry
  /\ interrupts < MaxInterrupts
  /\ interrupts' = interrupts + 1
  /\ interruptCtx' =
       [ at |-> pc,
         running |-> process # 0 /\ children[process].st = "running",
         created |-> process # 0 /\ children[process].created ]
  /\ pc' = "except_kbd"
  /\ UNCHANGED << mainVars, batchVars, localVars, retVars, envVars, samples, probeCalls, consumed,
                  cancelledOut, calls, outcomes >>

InterruptOutsideTry ==
  /\ mainpc \in {"batch", "single"}
  /\ pc \in OutsideTry
  /\ interrupts < MaxInterrupts
  /\ interrupts' = interrupts + 1
  /\ Uncaught("KeyboardInterrupt")

(***************************************************************************)
(* The encoder children.  A child is another process: it runs on its own   *)
(* until it exits, whether or not convert_file still holds its handle.     *)
(* terminate() only sends SIGTERM; the model does not say when, or         *)
(* whether, the child reacts to it.                                        *)
(***************************************************************************)
\* the program holds the read end of child c's diagnostic pipe and may yet read it
Monitored(c) ==
  /\ c = process
  /\ mainpc \in {"batch", "single"}
  /\ pc \in {"loop", "wait", "check_rc"}

\* The child writes its output by path, which creates the file when it is not
\* there.  When and how often an encoder opens its output path is its own
\* business; nothing the program does keeps a live child from doing so.
ChildWritesOutput(c) ==
  /\ children[c].st = "running"
  /\ ~(Exists(children[c].out) /\ fs[children[c].out] = "encoded" /\ children[c].created)
  /\ fs' = Written(fs, children[c].out, "encoded")
  /\ children' = [children EXCEPT ![c].created = TRUE]
  /\ UNCHANGED << mainVars, batchVars, pc, localVars, retVars, pipe, histVars, interrupts >>

\* the child writes a diagnostic line; it blocks while the pipe is full
ChildWritesLine(c) ==
  /\ children[c].st = "running"
  /\ Monitored(c)
  /\ children[c].errOpen
  /\ children[c].written < MaxLines
  /\ Len(pipe) < PipeCap
  /\ \E l \in Lines : pipe' = Append(pipe, [n |-> children[c].written + 1, text |-> l])
  /\ children' = [children EXCEPT ![c].written = @ + 1]
  /\ UNCHANGED << mainVars, batchVars, pc, localVars, retVars, fs, histVars, interrupts >>

\* the child closes its diagnostic stream
ChildClosesStderr(c) ==
  /\ children[c].st = "running"
  /\ Monitored(c)
  /\ children[c].errOpen
  /\ children' = [children EXCEPT ![c].errOpen = FALSE]
  /\ UNCHANGED << mainVars, batchVars, pc, localVars, retVars, fs, pipe, histVars,
                  interrupts >>

\* the child exits, which closes what it still had open; its status is kept
\* for the wait of a program that still monitors it
ChildExits(c) ==
  /\ children[c].st = "running"
  /\ \E code \in (IF Monitored(c) THEN ExitCodes ELSE {0}) :
       children' = [children EXCEPT ![c].st = "exited", ![c].rc = code, ![c].errOpen = FALSE]
  /\ UNCHANGED << mainVars, batchVars, pc, localVars, retVars, fs, pipe, histVars,
                  interrupts >>

EncoderWritesOutput == \E c \in 1..Len(children) : ChildWritesOutput(c)
EncoderWritesLine == \E c \in 1..Len(children) : ChildWritesLine(c)
EncoderClosesStderr == \E c \in 1..Len(children) : ChildClosesStderr(c)
EncoderExits == \E c \in 1..Len(children) : ChildExits(c)

Next ==
  \/ CheckFfmpeg \/ MainBatch \/ MainSingle \/ MainHelp \/ MainSingleDone
  \/ BatchEnumerate \/ BatchConfirm \/ BatchConfirmEOF \/ BatchCall \/ BatchCount
  \/ BatchReport
  \/ CheckInput \/ CheckOutput \/ Prompt \/ PromptEOF \/ TestOverwrite \/ Probe
  \/ Spawn \/ SpawnFails \/ LoopLine \/ LoopEnd \/ Wait \/ CheckRc
  \/ ExceptKbd \/ Cleanup \/ CleanupFails
  \/ InterruptInTry \/ InterruptOutsideTry
  \/ EncoderWritesOutput \/ EncoderWritesLine \/ EncoderClosesStderr \/ EncoderExits

Spec == Init /\ [][Next]_vars

(***************************************************************************)
(* Properties.                                                             *)
(***************************************************************************)
\* the number of TRUE entries of a sequence of booleans
RECURSIVE CountTrue(_)
CountTrue(q) == IF q = <<>> THEN 0 ELSE (IF Head(q) THEN 1 ELSE 0) + CountTrue(Tail(q))

\* the current job ran without an interrupt and without a caught fault
Undisturbed == interruptCtx = NoCtx /\ fault = "none"

\* C1: once convert_file has returned Cancelled for an interrupt delivered in the
\* read loop or in wait, with the child running and its output already created,
\* the resolved output path does not exist, at the return or at any later time.
C1_CancelledOutputStaysAbsent == \A p \in cancelledOut : ~Exists(p)

\* C2: in a confirmed batch convert_file is invoked once per enumerated file, in
\* enumeration order, whatever the earlier jobs returned; the counters count the
\* returned values, and when the batch ends every file has been attempted and the
\* counters sum to N, successful being the number of jobs that returned True.
C2_BatchResilience ==
  (args.batch /\ i >= 1) =>
    /\ Len(calls) <= Len(video_files)
    /\ \A k \in 1..Len(calls) : calls[k] = video_files[k]
    /\ successful = CountTrue(outcomes)
    /\ successful + failed = Len(outcomes)
    /\ bpc = "loop" => (Len(calls) = i - 1 /\ Len(outcomes) = i - 1)
    /\ bpc = "job" => (Len(calls) = i /\ Len(outcomes) = i - 1)
    /\ bpc = "done" => (calls = video_files /\ successful + failed = Len(video_files))

\* C2 witness: a batch of two files has ended, its first job not having succeeded
C2_Witness ==
  /\ bpc = "done" /\ Len(video_files) = 2
  /\ outcomes = << FALSE, TRUE >> /\ successful = 1 /\ failed = 1

\* an answer the overwrite prompt takes for a refusal: anything but y or Y
Declined(answer) == answer \notin { <<"y">>, <<"Y">> }

\* C3: when the resolved output exists and the overwrite prompt is declined,
\* convert_file returns False at line 60; from the call to that return no probe
\* is run, no child is spawned and the filesystem is left as it was.
C3_SkipSemantics ==
  [][ /\ (pc = "test_overwrite" /\ Declined(overwrite) /\ pc' # pc)
         => (pc' = "ret" /\ result' = FALSE /\ retLine' = 60)
      /\ (pc \in {"check_input", "check_output", "prompt", "test_overwrite"} /\ pc' # pc)
         => (/\ fs' = fs
             /\ children' = children
             /\ probeCalls = 0 /\ probeCalls' = 0
             /\ process' = 0)
      /\ (pc = "check_output" /\ pc' = "prompt") => Exists(output_file)
    ]_vars

\* C3 witness: Skipped has been returned over an existing output, on an answer
\* that is neither y nor Y
C3_Witness ==
  /\ pc = "ret" /\ retLine = 60 /\ result = FALSE
  /\ overwrite = <<"y", "e", "s">>
  /\ Exists(output_file) /\ fs[output_file] = "old"
  /\ process = 0 /\ probeCalls = 0

\* C4: no fault raised while a job is orchestrated leaves convert_file.
C4_NoFaultEscapes ==
  ~(mainpc = "crashed" /\ pc # "idle"
    /\ exc \in {"EOFError", "UnboundLocalError", "PermissionError"})

\* a line with the marker whose time token is missing, has a field count other
\* than 3, or has a non-numeric field
Malformed(l) ==
  /\ Contains(l, TimeMarker)
  /\ \/ TimeTokens(l) = <<>>
     \/ LET parts == Split(TimeTokens(l)[1], <<":">>)
        IN \/ Len(parts) # 3
           \/ ~(IntOk(parts[1]) /\ IntOk(parts[2]) /\ FloatOk(parts[3]))

\* C5: reading a malformed progress line emits no sample and leaves the reader in
\* its loop, ready for the next line.
C5_MalformedLineSkipped ==
  [][ (pc = "loop" /\ pipe # <<>> /\ pipe' = Tail(pipe) /\ Malformed(Head(pipe).text))
      => (pc' = "loop" /\ samples' = samples) ]_vars

\* C6: a run of convert_file that spawned the child and met neither an interrupt
\* nor a fault returns once the child has exited, True exactly on exit code 0.
C6_ExitStatusMapping ==
  (pc = "ret" /\ process # 0 /\ Undisturbed) =>
    /\ children[process].st = "exited"
    /\ retLine \in {115, 118}
    /\ result = (children[process].rc = 0)
    /\ result = (retLine = 115)

\* C6 witness: a child that exited with a non-zero code, and Failed returned
C6_Witness ==
  /\ pc = "ret" /\ process # 0 /\ Undisturbed
  /\ children[process].st = "exited" /\ children[process].rc # 0
  /\ result = FALSE

\* C7: with the input path missing convert_file returns False at line 48, the
\* output unresolved, nothing prompted, no probe run, no child spawned and the
\* filesystem as it was.
C7_MissingInput ==
  [][ (pc = "check_input" /\ ~Exists(input_path) /\ pc' # pc)
      => (/\ pc' = "ret" /\ result' = FALSE /\ retLine' = 48
          /\ output_file' = output_file
          /\ overwrite' = NoAnswer
          /\ probeCalls' = 0
          /\ process' = 0
          /\ children' = children
          /\ fs' = fs) ]_vars

\* C7 witness: False returned at line 48 for an input that does not exist
C7_Witness ==
  /\ pc = "ret" /\ retLine = 48 /\ result = FALSE
  /\ input_path # NoPath /\ ~Exists(input_path)
  /\ children = <<>>

\* C8: every percent printed lies in [0, 100].
C8_PercentClamped ==
  \A s \in samples : IntLeqRat(0, s) /\ RatLeqInt(s, 100)

\* the probe gave None or 0
Falsy(d) == d = None \/ (d.den > 0 /\ d.num = 0)

\* C9: with a duration of None or 0 no percent is printed and nothing is divided
\* by the duration, whatever the lines; an undisturbed job returns with the
\* stream drained to its end and the exit code deciding the outcome.
C9_UnknownDuration ==
  Falsy(duration) =>
    /\ samples = {}
    /\ fault \notin {"ZeroDivisionError", "IndexError"}
    /\ (pc = "ret" /\ Undisturbed) =>
         /\ pipe = <<>>
         /\ ~children[process].errOpen
         /\ children[process].st = "exited"
         /\ result = (children[process].rc = 0)

\* C9 witness: the probe gave 0, a well-formed progress line was read, and the
\* job returned Success on exit code 0
C9_Witness ==
  /\ pc = "ret" /\ Undisturbed /\ result = TRUE
  /\ duration # None /\ Falsy(duration)
  /\ line = LineProgress150

\* C10: whichever way the probe fails, an uninterrupted job goes on to spawn the
\* encoder, and the encoder's exit code alone decides the outcome.
C10_ProbeFailureNotFatal ==
  (pc = "ret" /\ probeCalls > 0 /\ interruptCtx = NoCtx /\ ~(duration.den > 0)) =>
    /\ duration # Unbound
    /\ (process # 0 /\ fault = "none") =>
         (children[process].st = "exited" /\ result = (children[process].rc = 0))

\* C11: the program removes a path only in the cancellation handler's cleanup
\* (lines 124-125, followed by the return of line 126), and the path it removes
\* there is the job's resolved output; no other step of the program, on any
\* path through convert_file, makes an existing path disappear.
C11_DeletionOnlyOnCancel ==
  [][\A p \in DOMAIN fs \ DOMAIN fs' :
        pc = "cleanup" /\ pc' = "ret" /\ retLine' = 126 /\ p = output_file]_vars

\* the handler has removed an output the child had created
C11_Witness ==
  pc = "ret" /\ retLine = 126 /\ interruptCtx.created /\ ~Exists(output_file)

\* C12: when the encoder or the prober is not to be found, or when the command
\* line names neither an input nor -b, main makes no call of convert_file or of
\* batch_convert: no job is attempted, no child is spawned, and main does not
\* end with status 0.
C12_StartupGate ==
  (tools # {"ffmpeg", "ffprobe"} \/ (~args.batch /\ args.input = NoPath)) =>
    /\ mainpc \in {"check_ffmpeg", "dispatch", "exit1"}
    /\ bpc = "idle"
    /\ calls = << >>
    /\ children = << >>

\* the numerals of the option values, as they are written
Shown(n) ==
  CASE n = 18 -> "18" [] n = 20 -> "20" [] n = 22 -> "22" [] n = 128 -> "128"
    [] n = 192 -> "192"

\* the files, as they are written on a command line
NameOf(p) ==
  CASE p = FileA -> "a.mkv" [] p = FileB -> "b.mkv" [] p = FileSub -> "d/c.mkv"
    [] p = FileOut -> "out.mp4" [] p = << "", "a_plex", ".mp4" >> -> "a_plex.mp4"

\* <input_stem>_plex.mp4 in the directory of the input
PlexNameOf(p) ==
  CASE p = FileA -> "a_plex.mp4" [] p = FileB -> "b_plex.mp4"
    [] p = FileSub -> "d/c_plex.mp4"
    [] p = << "", "a_plex", ".mp4" >> -> "a_plex_plex.mp4"

\* C13: every encoder child is started with the vector: ffmpeg, the input path,
\* libx264, the preset, the CRF quality, aac, the audio bitrate, the fast-start
\* flag, the metadata passthrough, the subtitle codec exactly when -s was given,
\* and last the output path, which is <input_stem>_plex.mp4 beside the input when
\* no output was supplied; a.mkv with the default options is encoded to
\* a_plex.mp4 with crf 22, preset slow, b:a 192k and no subtitle argument.
C13_EncoderInvocation ==
  /\ \A c \in 1..Len(children) :
       LET inp == calls[children[c].job]
           outName == IF args.output # NoPath THEN NameOf(args.output)
                      ELSE PlexNameOf(inp)
       IN /\ PathStr(children[c].out) = outName
          /\ children[c].cmd =
               << "ffmpeg", "-i", NameOf(inp), "-c:v", "libx264",
                  "-preset", args.preset, "-crf", Shown(args.quality),
                  "-c:a", "aac", "-b:a", Shown(args.audio) \o "k",
                  "-movflags", "+faststart", "-map_metadata", "0" >>
               \o (IF args.subtitles THEN << "-c:s", "mov_text" >> ELSE << >>)
               \o << outName >>
  /\ ( /\ ~args.batch /\ args.input = FileA /\ args.output = NoPath
       /\ args.quality = 22 /\ args.preset = "slow" /\ args.audio = 192
       /\ ~args.subtitles ) =>
      \A c \in 1..Len(children) :
        children[c].cmd =
          << "ffmpeg", "-i", "a.mkv", "-c:v", "libx264", "-preset", "slow",
             "-crf", "22", "-c:a", "aac", "-b:a", "192k", "-movflags", "+faststart",
             "-map_metadata", "0", "a_plex.mp4" >>

\* the encoder has been started for a.mkv under the default options
C13_Witness ==
  /\ ~args.batch /\ args.input = FileA /\ args.output = NoPath
  /\ args.quality = 22 /\ args.preset = "slow" /\ args.audio = 192 /\ ~args.subtitles
  /\ Len(children) = 1

\* the encoder children that have not exited
Alive == { c \in 1..Len(children) : children[c].st = "running" }

\* C14: when convert_file returns, whatever it returns, the encoder child it
\* spawned has exited; so at no moment are two encoder children alive, the
\* child of a job being gone before the next job's child is spawned.
C14_ChildExitedAtReturn ==
  /\ (pc = "ret" /\ process # 0) => children[process].st = "exited"
  /\ Cardinality(Alive) <= 1

\* convert_file has left the read loop by its end and is on the way to the
\* returns of lines 115 and 118
Drained == pc \in {"wait", "check_rc"} \/ (pc = "ret" /\ retLine \in {115, 118})

HandlerStep ==
  (InCall /\ pc \in {"except_kbd", "cleanup"}) =>
    /\ mainpc' # "crashed"
    /\ pc' \in {"except_kbd", "cleanup", "ret"}
    /\ (pc' = "ret") => (retLine' = 126 /\ result' = FALSE)
    /\ (pc' = "cleanup" /\ interruptCtx.running) => children'[process].term

\* C16: once an interrupt has been taken inside the try block (during the
\* probe, the spawn, the read loop or wait), the handler runs to the return of
\* line 126 with False: no step of it lets an exception leave convert_file, and
\* a child that was spawned has been asked to terminate when cleanup begins.
C16_InterruptEndsCancelled == [][HandlerStep]_vars

\* a step that moves the program while it stands in the handler of an
\* interrupt, come while the child was running, leads to the cleanup or to the
\* return of line 126
HandlerAdvances ==
  ( /\ InCall /\ pc \in {"except_kbd", "cleanup"}
    /\ process # 0 /\ interruptCtx.running
    /\ << pc, mainpc >> # << pc', mainpc' >> ) =>
    /\ mainpc' = mainpc
    /\ \/ pc' = "cleanup"
       \/ pc' = "ret" /\ retLine' = 126 /\ result' = FALSE

\* C17: an interrupt taken while the child is running ends in the return of
\* Cancelled: the handler asks the child to terminate, removes the output and
\* returns False at line 126, whatever the child does or fails to do.
C17_CancellationReturns == [][HandlerAdvances]_vars

\* the list of candidates is made in the one step of enumeration, of files that
\* exist then, before any job is run and any child spawned
EnumeratedOnce ==
  video_files' # video_files =>
    /\ bpc = "enumerate"
    /\ calls = << >> /\ children = << >>
    /\ \A k \in 1..Len(video_files') : Exists(video_files'[k])

\* the jobs of a batch follow the list: each file once, in order, N at the end,
\* and none at all when the list is empty or the confirmation was declined
FollowsList ==
  args.batch =>
    /\ \A j, k \in 1..Len(video_files) : j # k => video_files[j] # video_files[k]
    /\ Len(calls) <= Len(video_files)
    /\ \A k \in 1..Len(calls) : calls[k] = video_files[k]
    /\ Len(children) <= Len(calls)
    /\ (bpc = "done" /\ i >= 1) => Len(calls) = Len(video_files)
    /\ (bpc \in {"enumerate", "confirm"} \/ (bpc = "done" /\ i = 0)) =>
         (calls = << >> /\ children = << >>)

\* C18: batch_convert lists the candidates once, before the confirmation and
\* before any job; the list does not change afterwards, so a file an encoder
\* creates during the run is not taken as an input, no file is converted
\* twice, and the batch ends after exactly N jobs; with an empty list or a
\* declined confirmation no job runs and no child is spawned.
C18_FrozenCandidates == [][EnumeratedOnce]_vars /\ []FollowsList

\* a batch of two files has ended and the output of its first job exists
C18_Witness ==
  /\ args.batch /\ bpc = "done" /\ Len(calls) = 2
  /\ children # << >> /\ children[1].job = 1 /\ children[1].created
  /\ Exists(children[1].out)
====
